---- MODULE Spec2Model ----
(***************************************************************************)
(* Execution cycle of the PyTorch backend (src/src/libtorch.cc):           *)
(* ModelInstanceState::ProcessRequests and the functions it calls          *)
(* (SetInputTensors, Execute, ReadOutputTensors), entered through          *)
(* TRITONBACKEND_ModelInstanceExecute, and the construction of the         *)
(* instance (TRITONBACKEND_ModelInstanceInitialize, ValidateInputs,        *)
(* ValidateOutputs).                                                       *)
(*                                                                         *)
(* Spec starts from a constructed instance and runs one call; FairSpec     *)
(* adds that the blocking call keeps running; SpecCreate starts before     *)
(* construction, from any declared configuration.  SpecGpu is Spec on a    *)
(* GPU instance, whose copies are asynchronous; SpecInputs is Spec over    *)
(* the declared inputs and the names a request can carry; SpecSequence is  *)
(* the construction over the sequence-batching controls; SpecTwo           *)
(* interleaves the cycles of two instances (self names the running one,    *)
(* other holds the state of the one that is not running).                  *)
(*                                                                         *)
(* The serving front-end (TRITONBACKEND_* calls), the model                *)
(* (torch_model_->forward) and the memory manager are collaborators: each  *)
(* call to them is modelled by its outcome, chosen with \E from the        *)
(* outcomes the call can have (success or an error, a returned list of     *)
(* tensors or an exception).  What the front-end observes is recorded per  *)
(* request in history variables (attempted, created, sent, delivered,      *)
(* stats, released).                                                       *)
(*                                                                         *)
(* The helpers of triton/backend/backend_common.h used by the cycle are    *)
(* modelled by their interface:                                            *)
(*   RequestsRespondWithError(requests, n, err): for every request, create *)
(*     a response and, if that succeeded, send err on it; release the      *)
(*     request ("Fail and release all requests", libtorch.cc:538).         *)
(*   SendErrorForResponses(responses, n, err) and the macro                *)
(*     RESPOND_ALL_AND_RETURN_IF_ERROR: send err on every response that is *)
(*     not nullptr and set it to nullptr; the macro then returns from the  *)
(*     enclosing function.                                                 *)
(*   BackendInputCollector::ProcessTensor and                              *)
(*     BackendOutputResponder::ProcessTensor: the gather of the requests'  *)
(*     input slices into one buffer and the scatter of a result to the     *)
(*     open responses, both in request order.                              *)
(* libtorch_utils.h (the conversions between configuration, Triton and     *)
(* torch data types) is modelled by the table TorchTypes.                  *)
(***************************************************************************)
EXTENDS Integers, Sequences, FiniteSets, TLC

\* ------------------------------------------------------------- bounds
MaxRequests == 2   \* requests per call: 1..MaxRequests
MaxDim == 2        \* leading dimension of a request's first input: 0..MaxDim

\* number of outputs the model configuration declares
OutputCounts == 0 .. 2
\* number of tensors Execute can collect from the model's result
ResultCounts == 0 .. 2
\* number of inputs of the representative request
InputCounts == {1, 2}

\* max_batch_size values of the model configuration (0: no batching)
MaxBatchSizes == {0, 3}
\* data types of the schema and of the result tensors
DataTypes == {"FP32", "INT32"}
\* positional indices a declared name `<base>__<index>` can parse to (atoi)
Indices == -1 .. 1
\* classification codes of structured errors (TRITONSERVER_ERROR_*)
ErrorCodes == {"INTERNAL", "INVALID_ARG"}

VARIABLES
  model_config,       \* model_state_->ModelConfig(): the "input" and "output" arrays
  device_,            \* the device of the instance: "cpu" or "gpu"
  instance_state,     \* the state TRITONBACKEND_ModelInstanceSetState registered
  init_result,        \* what TRITONBACKEND_ModelInstanceInitialize returned
  max_batch_size,     \* model_state_->MaxBatchSize()
  output_names,       \* names of the "output" array of the model config, in order
  input_index_map_,   \* name -> positional index
  output_index_map_,  \* name -> positional index
  output_dtype_map_,  \* name -> declared data type
  pc,                 \* position of the cycle in ProcessRequests
  requests,           \* the request array of the call
  total_batch_size,
  responses,          \* the local vector: "open" (a response) or "null" (nullptr)
  input_memories,     \* number of BackendMemory buffers held
  input_buffers,      \* the contents of the buffers held, one per input
  output_tensors,     \* data types of the tensors Execute collected
  invalid_index,
  execute_result,     \* what TRITONBACKEND_ModelInstanceExecute returned
  cuda_copy,          \* the flag of ProcessRequests (line 628)
  gather_pending,     \* input buffers with copies issued and not synchronized
  scatter_pending,    \* outputs with copies issued and not synchronized
  responder_finalized, \* calls of responder.Finalize
  out_of_range,       \* the stores of line 896 outside input_tensors
  report_order,       \* per request: the calls of lines 748-763, in their order
  self,               \* the instance whose state the variables above and below hold
  other,              \* the state of the other instance, if there is one
  \* ---- what the collaborators observed during the call
  attempted,          \* per request: calls of TRITONBACKEND_ResponseNew
  created,            \* per request: responses created
  sent,               \* per request: the sequence of TRITONBACKEND_ResponseSend
  delivered,          \* per request: output names handed to its response
  slices,             \* per request: the slices of the results copied to it
  processed,          \* the outputs the loop of ReadOutputTensors got to
  stats,              \* per request: success flags of ReportStatistics
  released,           \* per request: calls of TRITONBACKEND_RequestRelease
  batch_stats,        \* calls of ReportBatchStatistics
  marshalled,         \* calls of SetInputTensors
  invoked,            \* calls of torch_model_->forward
  read_runs,          \* calls of ReadOutputTensors
  failures            \* the stages that failed: a subset of Stages

config_vars == <<model_config, device_, instance_state, init_result, max_batch_size,
                 output_names, input_index_map_, output_index_map_,
                 output_dtype_map_>>
local_vars == <<requests, total_batch_size, responses, input_memories,
                input_buffers, output_tensors, invalid_index>>
hist_vars == <<attempted, created, sent, delivered, slices, processed, stats, released, batch_stats,
               marshalled, invoked, read_runs, failures>>
copy_vars == <<cuda_copy, gather_pending, scatter_pending, responder_finalized>>
schema_vars == <<model_config, device_, instance_state, init_result,
                 max_batch_size, output_names, output_index_map_,
                 output_dtype_map_>>
sched_vars == <<self, other>>
vars == <<config_vars, pc, local_vars, execute_result, copy_vars, out_of_range,
          report_order, sched_vars, hist_vars>>

\* ------------------------------------------------------------- values
\* the failures of a cycle past accumulation: SetInputTensors returned early
\* ("marshal"), forward or the collection of its results threw ("execute"),
\* contiguous().flatten() threw ("flatten"), an output's data type differs
\* from the declared one ("dtype")
Stages == {"marshal", "execute", "flatten", "dtype"}
\* a nullptr entry of the request array
NullRequest == [null |-> TRUE, dim |-> 0, lookup |-> TRUE]
\* a request: its first input's leading dimension (shape[0], line 563), and
\* whether the lookup of that input succeeds (err of lines 557-562); the
\* lookup is made only when batching is enabled
Request == [null : {FALSE}, dim : 0 .. MaxDim, lookup : BOOLEAN]
RequestLists == UNION {[1 .. n -> Request \cup {NullRequest}] : n \in 1 .. MaxRequests}

Error(code, msg) == [code |-> code, msg |-> msg]
\* TRITONBACKEND_ResponseSend(response, COMPLETE_FINAL, nullptr)
FinalSuccess == [code |-> "SUCCESS", msg |-> "final"]

ReqIdx == DOMAIN requests
OpenSlots(resps) == {i \in DOMAIN resps : resps[i] = "open"}

\* ------------------------------------------------------------- construction
\* a name is the sequence of its characters
Digits == {"0", "1", "2"}
DigitValue(c) == IF c = "0" THEN 0 ELSE IF c = "1" THEN 1 ELSE 2

\* io_name.find("__") (lines 438, 485): the 0-based position of the first
\* occurrence of the delimiter, -1 if there is none
Find(name) ==
  LET hits == {p \in 1 .. (Len(name) - 1) : name[p] = "_" /\ name[p + 1] = "_"}
  IN IF hits = {} THEN -1
     ELSE (CHOOSE p \in hits : \A q \in hits : p <= q) - 1

\* io_name.substr(pos), pos 0-based and at most the length of the name
Substr(name, pos) == SubSeq(name, pos + 1, Len(name))

\* std::atoi (lines 442, 489): an optional sign, then the digits up to the
\* first character that is not a digit; 0 when there is no digit
RECURSIVE AtoiDigits(_, _)
AtoiDigits(str, acc) ==
  IF str = << >> \/ Head(str) \notin Digits THEN acc
  ELSE AtoiDigits(Tail(str), 10 * acc + DigitValue(Head(str)))
Atoi(str) ==
  IF str # << >> /\ Head(str) = "-" THEN 0 - AtoiDigits(Tail(str), 0)
  ELSE AtoiDigits(str, 0)

\* ModelConfigDataTypeToTorchType followed by ConvertTorchTypeToDataType
\* (libtorch_utils.h): the data types of the configuration that have a torch
\* type, and the data type that torch type converts back to
TorchTypes == [TYPE_FP32 |-> "FP32", TYPE_INT32 |-> "INT32"]
HasTorchType(io_dtype) == io_dtype \in DOMAIN TorchTypes

\* map[key] = value of std::unordered_map: the last write wins
Put(map, key, value) ==
  [k \in DOMAIN map \cup {key} |-> IF k = key THEN value ELSE map[k]]

NoError == [code |-> "SUCCESS", msg |-> "nullptr"]
\* the call has not returned yet
Pending == [code |-> "NONE", msg |-> "not returned"]
NamingError == [code |-> "INTERNAL", msg |-> "does not follow naming convention"]
DatatypeError == [code |-> "INTERNAL", msg |-> "unsupported datatype"]

\* lines 438-441 and 485-488: the name check of ValidateInputs/ValidateOutputs
NameRejected(io_name) == Find(io_name) = -1

\* lines 442 and 489: the index parsed from an accepted name
ParsedIndex(io_name) == Atoi(Substr(io_name, Find(io_name) + 2))

\* ValidateInputs (lines 422-467) from input i on, with the map built so far
RECURSIVE ValidateInputs(_, _, _)
ValidateInputs(ios, i, index_map) ==
  IF i > Len(ios) THEN [err |-> NoError, index_map |-> index_map]
  ELSE IF NameRejected(ios[i].name)
  THEN [err |-> NamingError, index_map |-> index_map]
  ELSE IF ~HasTorchType(ios[i].data_type)
  THEN [err |-> DatatypeError,
        index_map |-> Put(index_map, ios[i].name, ParsedIndex(ios[i].name))]
  ELSE ValidateInputs(ios, i + 1,
                      Put(index_map, ios[i].name, ParsedIndex(ios[i].name)))

\* ValidateOutputs (lines 469-515) from output i on, with the maps built so far
RECURSIVE ValidateOutputs(_, _, _, _)
ValidateOutputs(ios, i, index_map, dtype_map) ==
  IF i > Len(ios)
  THEN [err |-> NoError, index_map |-> index_map, dtype_map |-> dtype_map]
  ELSE IF NameRejected(ios[i].name)
  THEN [err |-> NamingError, index_map |-> index_map, dtype_map |-> dtype_map]
  ELSE IF ~HasTorchType(ios[i].data_type)
  THEN [err |-> DatatypeError, index_map |-> index_map, dtype_map |-> dtype_map]
  ELSE ValidateOutputs(ios, i + 1,
                       Put(index_map, ios[i].name, ParsedIndex(ios[i].name)),
                       Put(dtype_map, ios[i].name, TorchTypes[ios[i].data_type]))

\* lines 643-668: the names of the "output" array, in order
OutputNames(config) == [k \in DOMAIN config.output |-> config.output[k].name]

\* the control kinds of lines 313-324, in the order they are validated
Controls ==
  <<"CONTROL_SEQUENCE_START", "CONTROL_SEQUENCE_END", "CONTROL_SEQUENCE_READY",
    "CONTROL_SEQUENCE_CORRID">>

\* mutant: the name of a control is not checked for the delimiter
ValidateSequenceControl_NoCheck(tensor_name, index_map) ==
  IF tensor_name = << >>
  THEN [err |-> NoError, have_control |-> FALSE, index_map |-> index_map]
  ELSE [err |-> NoError, have_control |-> TRUE,
        index_map |-> Put(index_map, tensor_name, ParsedIndex(tensor_name))]

\* ValidateBooleanSequenceControl and ValidateTypedSequenceControl (lines
\* 354-420), which differ only in the library call that gives tensor_name: an
\* empty name is a control the configuration does not have
ValidateSequenceControl(tensor_name, index_map) ==
  IF tensor_name = << >>
  THEN [err |-> NoError, have_control |-> FALSE, index_map |-> index_map]
  ELSE IF NameRejected(tensor_name)
  THEN [err |-> NamingError, have_control |-> TRUE, index_map |-> index_map]
  ELSE [err |-> NoError, have_control |-> TRUE,
        index_map |-> Put(index_map, tensor_name, ParsedIndex(tensor_name))]

\* lines 311-338 from control i on: the first error ends the constructor;
\* every control the configuration has adds one to expected_input_cnt
RECURSIVE ValidateControls(_, _, _)
ValidateControls(sequence_batching, i, st) ==
  IF i > Len(Controls) THEN st
  ELSE LET v == ValidateSequenceControl(sequence_batching[Controls[i]],
                                        st.index_map)
       IN IF v.err # NoError
          THEN [st EXCEPT !.err = v.err]
          ELSE ValidateControls(
                 sequence_batching, i + 1,
                 [err |-> NoError, index_map |-> v.index_map,
                  expected_input_cnt |->
                    st.expected_input_cnt + (IF v.have_control THEN 1 ELSE 0)])

\* the constructor (lines 285-342): the first error of the sequence controls
\* (if the configuration has sequence_batching), of ValidateInputs and of
\* ValidateOutputs, and the maps of the instance
Construct(config) ==
  LET st0 == [err |-> NoError, index_map |-> << >>,
              expected_input_cnt |-> Len(config.input)]
      sc == IF "sequence_batching" \in DOMAIN config
            THEN ValidateControls(config.sequence_batching, 1, st0)
            ELSE st0
      vi == ValidateInputs(config.input, 1, sc.index_map)
      vo == ValidateOutputs(config.output, 1, << >>, << >>)
  IN IF sc.err # NoError
     THEN [err |-> sc.err,
           input_index_map |-> sc.index_map,
           output_index_map |-> << >>,
           output_dtype_map |-> << >>,
           expected_input_cnt |-> sc.expected_input_cnt]
     ELSE [err |-> IF vi.err # NoError THEN vi.err ELSE vo.err,
           input_index_map |-> vi.index_map,
           output_index_map |-> vo.index_map,
           output_dtype_map |-> vo.dtype_map,
           expected_input_cnt |-> sc.expected_input_cnt]

\* the declared names and data types the cycle is explored with: two inputs
\* at the positions 0 and 1; output k is named with its own letter and an
\* index of Indices
Letters == <<"a", "b">>
IndexText(n) == IF n < 0 THEN <<"-", "1">> ELSE IF n = 0 THEN <<"0">> ELSE <<"1">>
IoName(k, n) == <<Letters[k], "_", "_">> \o IndexText(n)
CycleInputs ==
  <<[name |-> IoName(1, 0), data_type |-> "TYPE_FP32"],
    [name |-> IoName(2, 1), data_type |-> "TYPE_FP32"]>>
CycleConfigs ==
  UNION {
    {[input |-> CycleInputs,
      output |-> [k \in 1 .. n |-> [name |-> IoName(k, idx[k]), data_type |-> dt[k]]]]
       : idx \in [1 .. n -> Indices], dt \in [1 .. n -> DOMAIN TorchTypes]}
    : n \in OutputCounts}

\* the cycle variables before any call
NoCycle ==
  /\ requests = << >>
  /\ total_batch_size = 0
  /\ responses = << >>
  /\ input_memories = 0
  /\ input_buffers = << >>
  /\ output_tensors = << >>
  /\ invalid_index = FALSE
  /\ cuda_copy = FALSE
  /\ gather_pending = 0
  /\ scatter_pending = 0
  /\ responder_finalized = 0
  /\ out_of_range = {}
  /\ report_order = << >>
  /\ attempted = << >>
  /\ created = << >>
  /\ sent = << >>
  /\ delivered = << >>
  /\ slices = << >>
  /\ processed = {}
  /\ stats = << >>
  /\ released = << >>
  /\ batch_stats = 0
  /\ marshalled = 0
  /\ invoked = 0
  /\ read_runs = 0
  /\ failures = {}

\* a single instance
Alone ==
  /\ self = 1
  /\ other = << >>

\* state after TRITONBACKEND_ModelInstanceInitialize succeeded: the maps
\* ValidateInputs and ValidateOutputs built from the declared names
Init ==
  /\ max_batch_size \in MaxBatchSizes
  /\ model_config \in CycleConfigs
  /\ device_ = "cpu"
  /\ Construct(model_config).err = NoError
  /\ instance_state = "set"
  /\ init_result = NoError
  /\ output_names = OutputNames(model_config)
  /\ input_index_map_ = Construct(model_config).input_index_map
  /\ output_index_map_ = Construct(model_config).output_index_map
  /\ output_dtype_map_ = Construct(model_config).output_dtype_map
  /\ pc = "idle"
  /\ NoCycle
  /\ execute_result = Pending
  /\ Alone

\* the declared names and data types construction is explored with: names
\* without the delimiter, with the delimiter and an index, and with the
\* delimiter and no index; data types with and without a torch type
CreateNames ==
  {<<"a">>, <<"a", "_", "1">>, <<"a", "_", "_", "0">>, <<"a", "_", "_", "1">>,
   <<"a", "_", "_", "-", "1">>, <<"a", "_", "_">>, <<"a", "_", "_", "b">>}
CreateTypes == {"TYPE_FP32", "TYPE_INT32", "TYPE_STRING"}
CreateEntries == [name : CreateNames, data_type : CreateTypes]
CreateConfigs ==
  [input : UNION {[1 .. n -> CreateEntries] : n \in 0 .. 1},
   output : UNION {[1 .. n -> CreateEntries] : n \in OutputCounts}]

LoadError == [code |-> "INTERNAL", msg |-> "failed to load model"]

\* state before TRITONBACKEND_ModelInstanceInitialize: no instance state
InitCreate ==
  /\ max_batch_size \in MaxBatchSizes
  /\ model_config \in CreateConfigs
  /\ device_ = "cpu"
  /\ instance_state = "unset"
  /\ init_result = Pending
  /\ output_names = << >>
  /\ input_index_map_ = << >>
  /\ output_index_map_ = << >>
  /\ output_dtype_map_ = << >>
  /\ pc = "initialize"
  /\ NoCycle
  /\ execute_result = Pending
  /\ Alone

\* TRITONBACKEND_ModelInstanceInitialize (lines 1078-1107) and
\* ModelInstanceState::Create (267-283): the instance state is registered only
\* if the constructor did not throw; LoadModel or a front-end call may fail
\* before the validation
ModelInstanceInitialize ==
  /\ pc = "initialize"
  /\ pc' = "idle"
  /\ \/ /\ init_result' = LoadError
        /\ UNCHANGED <<instance_state, output_names, input_index_map_,
                       output_index_map_, output_dtype_map_>>
     \/ LET c == Construct(model_config) IN
          /\ init_result' = c.err
          /\ IF c.err = NoError
             THEN /\ instance_state' = "set"
                  /\ output_names' = OutputNames(model_config)
                  /\ input_index_map_' = c.input_index_map
                  /\ output_index_map_' = c.output_index_map
                  /\ output_dtype_map_' = c.output_dtype_map
             ELSE UNCHANGED <<instance_state, output_names, input_index_map_,
                             output_index_map_, output_dtype_map_>>
  /\ UNCHANGED <<model_config, device_, max_batch_size, local_vars,
                 execute_result, copy_vars, out_of_range, report_order,
                 sched_vars, hist_vars>>

Returned == pc \in {"ret_null", "ret_lookup", "ret_zero", "ret_overflow", "done"}

\* some request of the call has no successful final response
CycleFailed ==
  \E i \in DOMAIN sent : FinalSuccess \notin {sent[i][k] : k \in DOMAIN sent[i]}

\* mutant: a failure while processing the requests is returned to the caller
ExecuteResult_PropagateFailure(failed) ==
  IF failed THEN [code |-> "INTERNAL", msg |-> "request processing failed"]
  ELSE NoError

\* line 1163: the value returned after ProcessRequests, whatever happened in it
ExecuteResult(failed) == NoError

StateError == [code |-> "INTERNAL", msg |-> "instance state"]

\* lines 1138-1140: the front-end fails to give the instance state; the call
\* returns that error and the requests are not touched
ExecuteWithoutState ==
  /\ pc = "idle"
  /\ pc' = "ret_state"
  /\ execute_result' = StateError
  /\ UNCHANGED <<config_vars, local_vars, copy_vars, out_of_range, report_order,
                 sched_vars, hist_vars>>

\* TRITONBACKEND_ModelInstanceExecute hands a request array, one of lists, to
\* ProcessRequests
CallWith(lists) ==
  /\ pc = "idle"
  /\ instance_state = "set"
  /\ \E rs \in lists :
       /\ requests' = rs
       /\ attempted' = [i \in DOMAIN rs |-> 0]
       /\ created' = [i \in DOMAIN rs |-> 0]
       /\ sent' = [i \in DOMAIN rs |-> << >>]
       /\ delivered' = [i \in DOMAIN rs |-> {}]
       /\ slices' = [i \in DOMAIN rs |-> {}]
       /\ stats' = [i \in DOMAIN rs |-> << >>]
       /\ released' = [i \in DOMAIN rs |-> 0]
       /\ report_order' = [i \in DOMAIN rs |-> << >>]
  /\ processed' = {}
  /\ pc' = "accumulate"
  /\ total_batch_size' = 0
  /\ responses' = << >>
  /\ input_memories' = 0
  /\ input_buffers' = << >>
  /\ output_tensors' = << >>
  /\ invalid_index' = FALSE
  /\ cuda_copy' = FALSE
  /\ gather_pending' = 0
  /\ scatter_pending' = 0
  /\ responder_finalized' = 0
  /\ out_of_range' = {}
  /\ batch_stats' = 0
  /\ marshalled' = 0
  /\ invoked' = 0
  /\ read_runs' = 0
  /\ failures' = {}
  /\ UNCHANGED <<config_vars, sched_vars>>
  /\ execute_result' = Pending

Call == CallWith(RequestLists)

\* mutant: the requests are released and no response is created for them
RequestsRespondWithError_Silent(ok, err) ==
  /\ released' = [i \in ReqIdx |-> released[i] + 1]
  /\ UNCHANGED <<attempted, created, sent, delivered, slices, processed, stats, batch_stats,
                 marshalled, invoked, read_runs, failures>>

\* RequestsRespondWithError(requests, request_count, err), where ResponseNew
\* succeeded for the requests in ok: the error is sent on each response
\* created, and every request is released.  The call is made with the whole
\* array, a nullptr entry included: what ResponseNew does with nullptr is not
\* defined by the front-end, so for it too either outcome is possible.
RequestsRespondWithError(ok, err) ==
  /\ attempted' = [i \in ReqIdx |-> attempted[i] + 1]
  /\ created' = [i \in ReqIdx |-> IF i \in ok THEN created[i] + 1 ELSE created[i]]
  /\ sent' = [i \in ReqIdx |-> IF i \in ok THEN Append(sent[i], err) ELSE sent[i]]
  /\ released' = [i \in ReqIdx |-> released[i] + 1]
  /\ UNCHANGED <<delivered, slices, processed, stats, batch_stats, marshalled, invoked, read_runs,
                 failures>>

\* mutant: the error is sent for every slot, the empty ones included
SentAfterError_All(resps, snt, err) == [i \in DOMAIN snt |-> Append(snt[i], err)]

\* SendErrorForResponses(&responses, request_count, err) on the vector resps:
\* the sends it makes, and the vector it leaves
SentAfterError(resps, snt, err) ==
  [i \in DOMAIN snt |-> IF i \in OpenSlots(resps) THEN Append(snt[i], err) ELSE snt[i]]
AllNull(resps) == [i \in DOMAIN resps |-> "null"]

\* mutant: every request counts for one, whatever its first input's shape
RequestBatchSize_AlwaysOne(request, max) == 1

\* lines 552, 563 and 570: what a request adds to the running total
RequestBatchSize(request, max) == IF max > 0 THEN request.dim ELSE 1

\* the loop of lines 537-572 from request i on, with the running total
RECURSIVE ScanRequests(_, _)
ScanRequests(i, total) ==
  IF i > Len(requests) THEN [kind |-> "sum", total |-> total]
  ELSE IF requests[i].null THEN [kind |-> "null", total |-> total]
  ELSE IF max_batch_size > 0 /\ ~requests[i].lookup
       THEN [kind |-> "lookup", total |-> total]
       ELSE ScanRequests(i + 1,
                         total + RequestBatchSize(requests[i], max_batch_size))

\* mutant: the nullptr request is reported with the wrong error class
NullRequestError_InvalidArg ==
  Error("INVALID_ARG", "null request given to PyTorch backend")

NullRequestError == Error("INTERNAL", "null request given to PyTorch backend")

\* lines 536-572: sum the batch sizes; a nullptr request or a failed lookup
\* of the first input fails all requests and returns
Accumulate ==
  /\ pc = "accumulate"
  /\ LET r == ScanRequests(1, 0) IN
       \/ /\ r.kind = "null"
          /\ \E ok \in SUBSET ReqIdx : RequestsRespondWithError(ok, NullRequestError)
          /\ pc' = "ret_null"
          /\ UNCHANGED total_batch_size
       \/ /\ r.kind = "lookup"
          /\ \E ok \in SUBSET ReqIdx, code \in ErrorCodes :
               RequestsRespondWithError(ok, Error(code, "request input"))
          /\ pc' = "ret_lookup"
          /\ UNCHANGED total_batch_size
       \/ /\ r.kind = "sum"
          /\ total_batch_size' = r.total
          /\ pc' = "check"
          /\ UNCHANGED hist_vars
  /\ UNCHANGED <<config_vars, requests, responses, input_memories, input_buffers,
                 output_tensors, invalid_index>>
  /\ execute_result' = (IF Returned' THEN ExecuteResult(CycleFailed')
                                      ELSE execute_result)
  /\ UNCHANGED <<copy_vars, out_of_range, report_order, sched_vars>>

\* mutant: the limit is compared off by one
BatchSizeExceeded_OffByOne(total, max) == (total # 1) /\ (total > max + 1)

\* mutant: the limit is not checked for a model that does not batch
BatchSizeExceeded_NoBatchingExempt(total, max) ==
  (max > 0) /\ (total # 1) /\ (total > max)

\* line 585
BatchSizeExceeded(total, max) == (total # 1) /\ (total > max)

BatchSizeError == Error("INTERNAL", "batch size exceeds max allowed")

\* mutant: an empty batch is not told apart
EmptyBatch_Never(total) == FALSE

\* line 575
EmptyBatch(total) == total = 0

\* lines 574-595: nothing to do for an empty batch; an oversized batch fails
\* all requests and returns
CheckBatchSize ==
  /\ pc = "check"
  /\ \/ /\ EmptyBatch(total_batch_size)
        /\ pc' = "ret_zero"
        /\ UNCHANGED hist_vars
     \/ /\ ~EmptyBatch(total_batch_size)
        /\ BatchSizeExceeded(total_batch_size, max_batch_size)
        /\ \E ok \in SUBSET ReqIdx : RequestsRespondWithError(ok, BatchSizeError)
        /\ pc' = "ret_overflow"
     \/ /\ ~EmptyBatch(total_batch_size)
        /\ ~BatchSizeExceeded(total_batch_size, max_batch_size)
        /\ pc' = "respond_new"
        /\ UNCHANGED hist_vars
  /\ UNCHANGED <<config_vars, local_vars>>
  /\ execute_result' = (IF Returned' THEN ExecuteResult(CycleFailed')
                                      ELSE execute_result)
  /\ UNCHANGED <<copy_vars, out_of_range, report_order, sched_vars>>

\* lines 609-623: one response per request; a failed creation leaves nullptr
CreateResponses ==
  /\ pc = "respond_new"
  /\ \E ok \in SUBSET ReqIdx :
       /\ responses' = [i \in ReqIdx |-> IF i \in ok THEN "open" ELSE "null"]
       /\ created' = [i \in ReqIdx |-> IF i \in ok THEN created[i] + 1 ELSE created[i]]
  /\ attempted' = [i \in ReqIdx |-> attempted[i] + 1]
  /\ pc' = "set_inputs"
  /\ UNCHANGED <<config_vars, requests, total_batch_size, input_memories,
                 input_buffers, output_tensors, invalid_index>>
  /\ UNCHANGED <<sent, delivered, slices, processed, stats, released, batch_stats, marshalled, invoked,
                 read_runs, failures>>
  /\ UNCHANGED <<execute_result, copy_vars, out_of_range, report_order, sched_vars>>

\* lines 848-853: the leading dimension of the shape the buffer is sized for
BatchnShape0(shape0, total, max) == IF max # 0 THEN total ELSE shape0

\* the rows of request i's input tensor, each tagged with its request and its
\* position in the request's tensor
RequestSlice(i) == [r \in 1 .. requests[i].dim |-> <<i, r>>]

\* mutant: the slices are gathered in reverse request order
RECURSIVE GatherSlices_Reversed(_)
GatherSlices_Reversed(n) ==
  IF n = 0 THEN << >> ELSE RequestSlice(n) \o GatherSlices_Reversed(n - 1)

\* collector->ProcessTensor (line 882): the slices of the first n requests
\* gathered into the buffer, one after the other in request order
RECURSIVE GatherSlices(_)
GatherSlices(n) ==
  IF n = 0 THEN << >> ELSE GatherSlices(n - 1) \o RequestSlice(n)

\* lines 847-884: the buffer of one input, sized from the representative
\* request requests[0] and filled by the collector
InputBuffer ==
  [rows |-> BatchnShape0(requests[1].dim, total_batch_size, max_batch_size),
   data |-> GatherSlices(Len(requests))]

\* lines 858-871 and 964-968: the buffers of an instance on a GPU are in GPU
\* memory, and the collector and the responder copy to and from GPU memory
\* with asynchronous copies on the stream of the instance
AsyncCopies(device) == device = "gpu"

\* lines 881-884: the buffers whose gather copies are in flight after
\* collector->ProcessTensor was called for the first n inputs
GatherPending(device, n) == IF AsyncCopies(device) THEN n ELSE 0

\* collector->Finalize() and responder.Finalize() (lines 900 and 972): whether
\* the stream has to be synchronized
NeedSync(pending) == pending > 0

\* lines 677-683 and 974-978: cudaStreamSynchronize if the flag is set; the
\* copies still in flight afterwards
Synchronize(flag, pending) == IF flag THEN 0 ELSE pending

\* an input name no configuration declares
UndeclaredName == <<"x">>

\* TRITONBACKEND_InputProperties (lines 833-837) for input k of the
\* representative request: the requests carry the declared inputs in their
\* order, and after them inputs the configuration does not declare
RequestInputName(config, k) ==
  IF k <= Len(config.input) THEN config.input[k].name ELSE UndeclaredName

\* input_index_map_[input_name] (line 896): operator[] of std::unordered_map
\* inserts the key with the value 0 when the map does not hold it
IndexOrInsert(map, key) == IF key \in DOMAIN map THEN map ELSE Put(map, key, 0)

\* the map after the lookups of the first n inputs of the request
RECURSIVE LookupInputs(_, _, _)
LookupInputs(map, config, n) ==
  IF n = 0 THEN map
  ELSE IndexOrInsert(LookupInputs(map, config, n - 1),
                     RequestInputName(config, n))

\* (*input_tensors)[slot] on the vector resized to size (lines 825, 896)
InRange(slot, size) == slot >= 0 /\ slot < size

\* lines 825 and 894-896 for the first n inputs of a request of input_count
\* inputs: the lookups of the slots in input_index_map_, and the stores that
\* fall outside input_tensors.  Such a store is undefined behaviour: the
\* cycle goes on with other memory overwritten, or the process ends.
StoreInputTensors(n, input_count) ==
  LET map == LookupInputs(input_index_map_, model_config, n)
      bad == {[name |-> RequestInputName(model_config, k),
               slot |-> map[RequestInputName(model_config, k)],
               size |-> input_count] :
                k \in {j \in 1 .. n :
                         ~InRange(map[RequestInputName(model_config, j)],
                                  input_count)}}
  IN /\ input_index_map_' = map
     /\ out_of_range' = bad
     /\ pc' \in (IF bad = {} THEN {"execute"} ELSE {"execute", "crashed"})

\* lines 635-637 and 808-901: one buffer per input of the representative
\* request; a failed front-end call or allocation sends the error to every open
\* response and returns from SetInputTensors with the buffers allocated so far
SetInputTensors ==
  /\ pc = "set_inputs"
  /\ marshalled' = marshalled + 1
  /\ \E input_count \in InputCounts :
       \/ /\ input_memories' = input_count
          /\ StoreInputTensors(input_count, input_count)
          /\ cuda_copy' = (cuda_copy \/ NeedSync(GatherPending(device_, input_count)))
          /\ UNCHANGED <<responses, sent, failures>>
       \/ \E n \in 0 .. (input_count - 1), code \in ErrorCodes :
            /\ input_memories' = n
            /\ StoreInputTensors(n, input_count)
            /\ failures' = failures \cup {"marshal"}
            /\ sent' = SentAfterError(responses, sent, Error(code, "input"))
            /\ responses' = AllNull(responses)
            /\ UNCHANGED cuda_copy
  /\ input_buffers' = [k \in 1 .. input_memories' |-> InputBuffer]
  /\ gather_pending' = GatherPending(device_, input_memories')
  /\ UNCHANGED <<schema_vars, requests, total_batch_size, output_tensors,
                 invalid_index>>
  /\ UNCHANGED <<attempted, created, delivered, slices, processed, stats, released, batch_stats,
                 invoked, read_runs>>
  /\ UNCHANGED <<execute_result, scatter_pending, responder_finalized,
                 report_order, sched_vars>>

\* the lists of result tensors (by data type) Execute can collect
TensorLists == UNION {[1 .. k -> DataTypes] : k \in ResultCounts}

ExecuteError == Error("INTERNAL", "PyTorch execute failure")

\* mutant: the catch block sends the error and leaves the responses in the vector
Execute_KeepOpen ==
  /\ pc = "execute"
  /\ invoked' = invoked + 1
  /\ \E ts \in TensorLists :
       /\ output_tensors' = ts
       /\ \/ UNCHANGED <<sent, failures>>
          \/ /\ failures' = failures \cup {"execute"}
             /\ sent' = SentAfterError(responses, sent, ExecuteError)
  /\ gather_pending' = Synchronize(cuda_copy, gather_pending)
  /\ pc' = "free_inputs"
  /\ UNCHANGED <<config_vars, requests, total_batch_size, responses,
                 input_memories, input_buffers, invalid_index>>
  /\ UNCHANGED <<attempted, created, delivered, slices, processed, stats, released, batch_stats,
                 marshalled, read_runs>>
  /\ UNCHANGED <<execute_result, cuda_copy, scatter_pending, responder_finalized,
                 out_of_range, report_order, sched_vars>>

\* lines 677-690 and 773-805: the stream is synchronized if SetInputTensors
\* set cuda_copy, then one call of forward; its result (a tensor or a
\* tuple) is collected into output_tensors; an exception, of forward or of
\* the collection, is sent to every open response
Execute ==
  /\ pc = "execute"
  /\ invoked' = invoked + 1
  /\ \E ts \in TensorLists :
       /\ output_tensors' = ts
       /\ \/ UNCHANGED <<responses, sent, failures>>
          \/ /\ failures' = failures \cup {"execute"}
             /\ sent' = SentAfterError(responses, sent, ExecuteError)
             /\ responses' = AllNull(responses)
  /\ gather_pending' = Synchronize(cuda_copy, gather_pending)
  /\ pc' = "free_inputs"
  /\ UNCHANGED <<config_vars, requests, total_batch_size, input_memories,
                 input_buffers, invalid_index>>
  /\ UNCHANGED <<attempted, created, delivered, slices, processed, stats, released, batch_stats,
                 marshalled, read_runs>>
  /\ UNCHANGED <<execute_result, cuda_copy, scatter_pending, responder_finalized,
                 out_of_range, report_order, sched_vars>>

\* mutant: the buffers are not deleted
FreeInputMemories_Keep ==
  /\ pc = "free_inputs"
  /\ pc' = "verify_outputs"
  /\ UNCHANGED <<config_vars, local_vars, hist_vars>>
  /\ UNCHANGED <<execute_result, copy_vars, out_of_range, report_order, sched_vars>>

\* lines 695-699
FreeInputMemories ==
  /\ pc = "free_inputs"
  /\ input_memories' = 0
  /\ input_buffers' = << >>
  /\ pc' = "verify_outputs"
  /\ UNCHANGED <<config_vars, requests, total_batch_size, responses,
                 output_tensors, invalid_index, hist_vars>>
  /\ UNCHANGED <<execute_result, copy_vars, out_of_range, report_order, sched_vars>>

\* mutant: the index is compared with the number of results, not the last index
InvalidIndex_OffByOne(op_index, max_index) ==
  (op_index < 0) \/ (op_index > max_index + 1)

\* line 707
InvalidIndex(op_index, max_index) == (op_index < 0) \/ (op_index > max_index)

\* lines 704-707: some declared output refers to a result that does not exist
SomeInvalidIndex ==
  \E k \in DOMAIN output_names :
    InvalidIndex(output_index_map_[output_names[k]], Len(output_tensors) - 1)

OutputIndexError == Error("INVALID_ARG", "output index which doesn't exist")

\* lines 701-721
VerifyOutputIndices ==
  /\ pc = "verify_outputs"
  /\ invalid_index' = SomeInvalidIndex
  /\ IF SomeInvalidIndex
     THEN /\ sent' = SentAfterError(responses, sent, OutputIndexError)
          /\ responses' = AllNull(responses)
     ELSE UNCHANGED <<responses, sent>>
  /\ pc' = IF SomeInvalidIndex THEN "send" ELSE "read_outputs"
  /\ UNCHANGED <<config_vars, requests, total_batch_size, input_memories,
                 input_buffers, output_tensors>>
  /\ UNCHANGED <<attempted, created, delivered, slices, processed, stats, released, batch_stats,
                 marshalled, invoked, read_runs, failures>>
  /\ UNCHANGED <<execute_result, copy_vars, out_of_range, report_order, sched_vars>>

\* mutant: the data-type check is missing
DtypeMismatch_Never(config_datatype, output_dtype) == FALSE

\* line 940
DtypeMismatch(config_datatype, output_dtype) == config_datatype # output_dtype

FlattenError == Error("INTERNAL", "output tensor is not found")
DtypeError == Error("INVALID_ARG", "unexpected datatype")

\* mutant: the output is written for every request, whatever its slot holds
ProcessTensor_AllSlots(name, resps, dlv) ==
  [i \in DOMAIN dlv |-> dlv[i] \cup {name}]

\* responder.ProcessTensor (lines 964-968): the output is handed to every
\* response that is still open
ProcessTensor(name, resps, dlv) ==
  [i \in DOMAIN dlv |-> IF i \in OpenSlots(resps) THEN dlv[i] \cup {name} ELSE dlv[i]]

\* the offset the responder has reached before request i, advancing over the
\* requests whose response is in open (all: the whole batch)
RECURSIVE OffsetBefore(_, _)
OffsetBefore(i, open) ==
  IF i <= 1 THEN 0
  ELSE OffsetBefore(i - 1, open)
         + (IF (i - 1) \in open
            THEN RequestBatchSize(requests[i - 1], max_batch_size) ELSE 0)

\* mutant: the offset advances only over the requests whose response is open
ScatterSlices_SkipEmpty(name, resps, slc) ==
  [i \in DOMAIN slc |->
     IF i \in OpenSlots(resps)
     THEN slc[i] \cup
            {[name |-> name, offset |-> OffsetBefore(i, OpenSlots(resps)),
              len |-> RequestBatchSize(requests[i], max_batch_size)]}
     ELSE slc[i]]

\* responder.ProcessTensor (lines 910-913 and 964-968): in request order, the
\* slice of every request is sized by the request's own batch size; it is
\* copied to the request's response if that is open, and skipped otherwise
ScatterSlices(name, resps, slc) ==
  [i \in DOMAIN slc |->
     IF i \in OpenSlots(resps)
     THEN slc[i] \cup
            {[name |-> name, offset |-> OffsetBefore(i, DOMAIN resps),
              len |-> RequestBatchSize(requests[i], max_batch_size)]}
     ELSE slc[i]]

\* the loop of lines 918-969 from output idx on, st being the response vector
\* and what was sent, written and processed so far; flat_fail is the output
\* whose contiguous().flatten() throws (0: none).  A failure sends the error
\* to every open response and returns from ReadOutputTensors.
\* mutant: after the data-type error the loop goes on with the next output
DtypeErrorResume_Continue(idx) == idx + 1

\* lines 940-950: RESPOND_ALL_AND_RETURN_IF_ERROR returns from
\* ReadOutputTensors, so no output is left for the loop
DtypeErrorResume(idx) == Len(output_names) + 1

RECURSIVE ReadFrom(_, _, _)
ReadFrom(idx, flat_fail, st) ==
  IF idx > Len(output_names) THEN st
  ELSE LET name == output_names[idx]
           op_index == output_index_map_[name]
           proc == st.processed \cup {name}
       IN IF idx = flat_fail
          THEN [st EXCEPT !.responses = AllNull(st.responses),
                          !.sent = SentAfterError(st.responses, st.sent, FlattenError),
                          !.processed = proc,
                          !.failed = st.failed \cup {"flatten"}]
          ELSE IF DtypeMismatch(output_dtype_map_[name], output_tensors[op_index + 1])
          THEN ReadFrom(DtypeErrorResume(idx), flat_fail,
                        [st EXCEPT !.responses = AllNull(st.responses),
                                   !.sent = SentAfterError(st.responses, st.sent,
                                                           DtypeError),
                                   !.processed = proc,
                                   !.failed = st.failed \cup {"dtype"}])
          ELSE ReadFrom(idx + 1, flat_fail,
                        [st EXCEPT !.delivered = ProcessTensor(name, st.responses,
                                                              st.delivered),
                                   !.slices = ScatterSlices(name, st.responses,
                                                            st.slices),
                                   !.processed = proc])

\* the outputs of which responder.ProcessTensor copied a slice that is not
\* empty to some response
ScatteredOutputs(slc) ==
  {s.name : s \in {t \in UNION {slc[i] : i \in DOMAIN slc} : t.len > 0}}

\* lines 964-968: the outputs whose scatter copies are in flight
ScatterPending(device, slc) ==
  IF AsyncCopies(device) THEN Cardinality(ScatteredOutputs(slc)) ELSE 0

\* lines 725-729 and 903-979: when the loop ran to its end the responder is
\* finalized and the stream synchronized; a failure in the loop returns before
\* line 972
ReadOutputTensors ==
  /\ pc = "read_outputs"
  /\ read_runs' = read_runs + 1
  /\ \E flat_fail \in 0 .. Len(output_names) :
       LET r == ReadFrom(1, flat_fail,
                         [responses |-> responses, sent |-> sent,
                          delivered |-> delivered, slices |-> slices,
                          processed |-> processed, failed |-> {}]) IN
         /\ responses' = r.responses
         /\ sent' = r.sent
         /\ delivered' = r.delivered
         /\ slices' = r.slices
         /\ processed' = r.processed
         /\ failures' = failures \cup r.failed
         /\ IF r.failed = {}
            THEN /\ responder_finalized' = responder_finalized + 1
                 /\ scatter_pending' =
                      Synchronize(NeedSync(ScatterPending(device_, r.slices)),
                                  ScatterPending(device_, r.slices))
            ELSE /\ UNCHANGED responder_finalized
                 /\ scatter_pending' = ScatterPending(device_, r.slices)
  /\ pc' = "send"
  /\ UNCHANGED <<config_vars, requests, total_batch_size, input_memories,
                 input_buffers, output_tensors, invalid_index>>
  /\ UNCHANGED <<attempted, created, stats, released, batch_stats, marshalled,
                 invoked>>
  /\ UNCHANGED <<execute_result, cuda_copy, gather_pending, out_of_range,
                 report_order, sched_vars>>

\* mutant: the final loop does not skip the slots that are nullptr
FinalSendSlots_All(resps) == DOMAIN resps

\* line 740: the responses the final loop sends
FinalSendSlots(resps) == OpenSlots(resps)

\* lines 734-746: every response still in the vector is sent as final, with
\* no error; the vector keeps its entries
SendResponses ==
  /\ pc = "send"
  /\ sent' = [i \in ReqIdx |-> IF i \in FinalSendSlots(responses)
                                THEN Append(sent[i], FinalSuccess) ELSE sent[i]]
  /\ pc' = "report"
  /\ UNCHANGED <<config_vars, local_vars>>
  /\ UNCHANGED <<attempted, created, delivered, slices, processed, stats, released, batch_stats,
                 marshalled, invoked, read_runs, failures>>
  /\ UNCHANGED <<execute_result, copy_vars, out_of_range, report_order, sched_vars>>

\* mutant: every request is reported as successful
RequestSucceeded_Always(response) == TRUE

\* line 754: the success flag of a request's statistics
RequestSucceeded(response) == response # "null"

\* mutant: only the requests whose response is still in the vector are released
ReportAndRelease_OnlySuccessful ==
  /\ pc = "report"
  /\ stats' = [i \in ReqIdx |-> Append(stats[i], responses[i] # "null")]
  /\ released' = [i \in ReqIdx |->
                    IF responses[i] # "null" THEN released[i] + 1 ELSE released[i]]
  /\ report_order' = [i \in ReqIdx |->
                        IF responses[i] # "null"
                        THEN report_order[i] \o <<"statistics", "release">>
                        ELSE report_order[i] \o <<"statistics">>]
  /\ pc' = "report_batch"
  /\ UNCHANGED <<config_vars, local_vars>>
  /\ UNCHANGED <<attempted, created, sent, delivered, slices, processed, batch_stats, marshalled,
                 invoked, read_runs, failures>>
  /\ UNCHANGED <<execute_result, copy_vars, out_of_range, sched_vars>>

\* mutant: a request is released before its statistics are reported
ReportAndRelease_ReleaseFirst ==
  /\ pc = "report"
  /\ stats' = [i \in ReqIdx |-> Append(stats[i], responses[i] # "null")]
  /\ released' = [i \in ReqIdx |-> released[i] + 1]
  /\ report_order' = [i \in ReqIdx |-> report_order[i] \o <<"release", "statistics">>]
  /\ pc' = "report_batch"
  /\ UNCHANGED <<config_vars, local_vars>>
  /\ UNCHANGED <<attempted, created, sent, delivered, slices, processed, batch_stats, marshalled,
                 invoked, read_runs, failures>>
  /\ UNCHANGED <<execute_result, copy_vars, out_of_range, sched_vars>>

\* lines 748-763: per request, report statistics (750-756), then release the
\* request (759-762)
ReportAndRelease ==
  /\ pc = "report"
  /\ stats' = [i \in ReqIdx |-> Append(stats[i], RequestSucceeded(responses[i]))]
  /\ released' = [i \in ReqIdx |-> released[i] + 1]
  /\ report_order' = [i \in ReqIdx |-> report_order[i] \o <<"statistics", "release">>]
  /\ pc' = "report_batch"
  /\ UNCHANGED <<config_vars, local_vars>>
  /\ UNCHANGED <<attempted, created, sent, delivered, slices, processed, batch_stats, marshalled,
                 invoked, read_runs, failures>>
  /\ UNCHANGED <<execute_result, copy_vars, out_of_range, sched_vars>>

\* lines 765-770
ReportBatchStatistics ==
  /\ pc = "report_batch"
  /\ batch_stats' = batch_stats + 1
  /\ pc' = "done"
  /\ UNCHANGED <<config_vars, local_vars>>
  /\ UNCHANGED <<attempted, created, sent, delivered, slices, processed, stats, released, marshalled,
                 invoked, read_runs, failures>>
  /\ execute_result' = (IF Returned' THEN ExecuteResult(CycleFailed')
                                      ELSE execute_result)
  /\ UNCHANGED <<copy_vars, out_of_range, report_order, sched_vars>>

Next ==
  \/ ExecuteWithoutState
  \/ Call
  \/ Accumulate
  \/ CheckBatchSize
  \/ CreateResponses
  \/ SetInputTensors
  \/ Execute
  \/ FreeInputMemories
  \/ VerifyOutputIndices
  \/ ReadOutputTensors
  \/ SendResponses
  \/ ReportAndRelease
  \/ ReportBatchStatistics

Spec == Init /\ [][Next]_vars

\* state after TRITONBACKEND_ModelInstanceInitialize succeeded for an instance
\* on a GPU
InitGpu ==
  /\ max_batch_size \in MaxBatchSizes
  /\ model_config \in CycleConfigs
  /\ device_ = "gpu"
  /\ Construct(model_config).err = NoError
  /\ instance_state = "set"
  /\ init_result = NoError
  /\ output_names = OutputNames(model_config)
  /\ input_index_map_ = Construct(model_config).input_index_map
  /\ output_index_map_ = Construct(model_config).output_index_map
  /\ output_dtype_map_ = Construct(model_config).output_dtype_map
  /\ pc = "idle"
  /\ NoCycle
  /\ execute_result = Pending
  /\ Alone

\* the cycle on an instance whose buffers and results are in GPU memory
SpecGpu == InitGpu /\ [][Next]_vars

\* configurations that declare one or two inputs at any positions of Indices,
\* and one output
InputConfigs ==
  UNION {
    {[input |-> [k \in 1 .. n |-> [name |-> IoName(k, idx[k]),
                                   data_type |-> "TYPE_FP32"]],
      output |-> <<[name |-> IoName(1, 0), data_type |-> "TYPE_FP32"]>>]
       : idx \in [1 .. n -> Indices]}
    : n \in 1 .. 2}

\* state after TRITONBACKEND_ModelInstanceInitialize succeeded on a
\* configuration of InputConfigs
InitInputs ==
  /\ max_batch_size \in MaxBatchSizes
  /\ model_config \in InputConfigs
  /\ device_ = "cpu"
  /\ Construct(model_config).err = NoError
  /\ instance_state = "set"
  /\ init_result = NoError
  /\ output_names = OutputNames(model_config)
  /\ input_index_map_ = Construct(model_config).input_index_map
  /\ output_index_map_ = Construct(model_config).output_index_map
  /\ output_dtype_map_ = Construct(model_config).output_dtype_map
  /\ pc = "idle"
  /\ NoCycle
  /\ execute_result = Pending
  /\ Alone

\* the cycle on instances whose declared inputs vary
SpecInputs == InitInputs /\ [][Next]_vars

\* ProcessRequests runs on the thread of the call and blocks until it returns
\* (execution policy BLOCKING, lines 1143-1147): a step that can be taken is
\* eventually taken
FairSpec == Spec /\ WF_vars(Next)

\* the tensor names a configuration can give control i: none (the control is
\* absent), a name with the delimiter and an index, a name without delimiter
ControlLetters == <<"s", "e", "r", "c">>
ControlNames(i) ==
  {<< >>, <<ControlLetters[i], "_", "_", "1">>, <<ControlLetters[i], "_", "_", "2">>,
   <<ControlLetters[i]>>}
SequenceConfigs ==
  {[input |-> <<[name |-> IoName(1, 0), data_type |-> "TYPE_FP32"]>>,
    output |-> <<[name |-> IoName(1, 0), data_type |-> "TYPE_FP32"]>>,
    sequence_batching |-> [k \in {Controls[i] : i \in 1 .. Len(Controls)} |->
                             names[CHOOSE i \in 1 .. Len(Controls) : Controls[i] = k]]]
     : names \in {f \in [1 .. Len(Controls) -> UNION {ControlNames(i) : i \in 1 .. Len(Controls)}] :
                    \A i \in 1 .. Len(Controls) : f[i] \in ControlNames(i)}}

\* state before TRITONBACKEND_ModelInstanceInitialize of a sequence model
InitSequence ==
  /\ max_batch_size \in MaxBatchSizes
  /\ model_config \in SequenceConfigs
  /\ device_ = "cpu"
  /\ instance_state = "unset"
  /\ init_result = Pending
  /\ output_names = << >>
  /\ input_index_map_ = << >>
  /\ output_index_map_ = << >>
  /\ output_dtype_map_ = << >>
  /\ pc = "initialize"
  /\ NoCycle
  /\ execute_result = Pending
  /\ Alone

\* construction of an instance from any declared configuration, and the calls
\* the front-end then makes on it
NextCreate ==
  \/ ModelInstanceInitialize
  \/ Call

SpecCreate == InitCreate /\ [][NextCreate]_vars

\* construction of an instance of a model with sequence batching
SpecSequence == InitSequence /\ [][NextCreate]_vars

\* ------------------------------------------------------------- two instances
\* the state of the instance that is running: the members of its
\* ModelInstanceState (lines 249-264) and the locals of its ProcessRequests
Current ==
  [model_config |-> model_config, device_ |-> device_,
   instance_state |-> instance_state, init_result |-> init_result,
   max_batch_size |-> max_batch_size, output_names |-> output_names,
   input_index_map_ |-> input_index_map_,
   output_index_map_ |-> output_index_map_,
   output_dtype_map_ |-> output_dtype_map_, pc |-> pc, requests |-> requests,
   total_batch_size |-> total_batch_size, responses |-> responses,
   input_memories |-> input_memories, input_buffers |-> input_buffers,
   output_tensors |-> output_tensors, invalid_index |-> invalid_index,
   execute_result |-> execute_result, cuda_copy |-> cuda_copy,
   gather_pending |-> gather_pending, scatter_pending |-> scatter_pending,
   responder_finalized |-> responder_finalized,
   out_of_range |-> out_of_range, report_order |-> report_order,
   attempted |-> attempted, created |-> created, sent |-> sent,
   delivered |-> delivered, slices |-> slices, processed |-> processed,
   stats |-> stats, released |-> released, batch_stats |-> batch_stats,
   marshalled |-> marshalled, invoked |-> invoked, read_runs |-> read_runs,
   failures |-> failures]

\* mutant: the input index map is one object shared by the instances
Switch_SharedIndexMap ==
  /\ other # << >>
  /\ self' = 3 - self
  /\ other' = Current
  /\ model_config' = other.model_config
  /\ device_' = other.device_
  /\ instance_state' = other.instance_state
  /\ init_result' = other.init_result
  /\ max_batch_size' = other.max_batch_size
  /\ output_names' = other.output_names
  /\ UNCHANGED input_index_map_
  /\ output_index_map_' = other.output_index_map_
  /\ output_dtype_map_' = other.output_dtype_map_
  /\ pc' = other.pc
  /\ requests' = other.requests
  /\ total_batch_size' = other.total_batch_size
  /\ responses' = other.responses
  /\ input_memories' = other.input_memories
  /\ input_buffers' = other.input_buffers
  /\ output_tensors' = other.output_tensors
  /\ invalid_index' = other.invalid_index
  /\ execute_result' = other.execute_result
  /\ cuda_copy' = other.cuda_copy
  /\ gather_pending' = other.gather_pending
  /\ scatter_pending' = other.scatter_pending
  /\ responder_finalized' = other.responder_finalized
  /\ out_of_range' = other.out_of_range
  /\ report_order' = other.report_order
  /\ attempted' = other.attempted
  /\ created' = other.created
  /\ sent' = other.sent
  /\ delivered' = other.delivered
  /\ slices' = other.slices
  /\ processed' = other.processed
  /\ stats' = other.stats
  /\ released' = other.released
  /\ batch_stats' = other.batch_stats
  /\ marshalled' = other.marshalled
  /\ invoked' = other.invoked
  /\ read_runs' = other.read_runs
  /\ failures' = other.failures

\* the thread of the other instance runs: TRITONBACKEND_ModelInstanceExecute
\* works on the state registered for the instance it is called with (lines
\* 1131-1141), and ProcessRequests on that state and on its own locals
Switch ==
  /\ other # << >>
  /\ self' = 3 - self
  /\ other' = Current
  /\ model_config' = other.model_config
  /\ device_' = other.device_
  /\ instance_state' = other.instance_state
  /\ init_result' = other.init_result
  /\ max_batch_size' = other.max_batch_size
  /\ output_names' = other.output_names
  /\ input_index_map_' = other.input_index_map_
  /\ output_index_map_' = other.output_index_map_
  /\ output_dtype_map_' = other.output_dtype_map_
  /\ pc' = other.pc
  /\ requests' = other.requests
  /\ total_batch_size' = other.total_batch_size
  /\ responses' = other.responses
  /\ input_memories' = other.input_memories
  /\ input_buffers' = other.input_buffers
  /\ output_tensors' = other.output_tensors
  /\ invalid_index' = other.invalid_index
  /\ execute_result' = other.execute_result
  /\ cuda_copy' = other.cuda_copy
  /\ gather_pending' = other.gather_pending
  /\ scatter_pending' = other.scatter_pending
  /\ responder_finalized' = other.responder_finalized
  /\ out_of_range' = other.out_of_range
  /\ report_order' = other.report_order
  /\ attempted' = other.attempted
  /\ created' = other.created
  /\ sent' = other.sent
  /\ delivered' = other.delivered
  /\ slices' = other.slices
  /\ processed' = other.processed
  /\ stats' = other.stats
  /\ released' = other.released
  /\ batch_stats' = other.batch_stats
  /\ marshalled' = other.marshalled
  /\ invoked' = other.invoked
  /\ read_runs' = other.read_runs
  /\ failures' = other.failures

\* the instance constructed from a configuration, before any call
Constructed(config, max) ==
  [model_config |-> config, device_ |-> "cpu", instance_state |-> "set",
   init_result |-> NoError, max_batch_size |-> max,
   output_names |-> OutputNames(config),
   input_index_map_ |-> Construct(config).input_index_map,
   output_index_map_ |-> Construct(config).output_index_map,
   output_dtype_map_ |-> Construct(config).output_dtype_map, pc |-> "idle",
   requests |-> << >>, total_batch_size |-> 0, responses |-> << >>,
   input_memories |-> 0, input_buffers |-> << >>, output_tensors |-> << >>,
   invalid_index |-> FALSE, execute_result |-> Pending, cuda_copy |-> FALSE,
   gather_pending |-> 0, scatter_pending |-> 0, responder_finalized |-> 0,
   out_of_range |-> {}, report_order |-> << >>, attempted |-> << >>,
   created |-> << >>, sent |-> << >>, delivered |-> << >>, slices |-> << >>,
   processed |-> {}, stats |-> << >>, released |-> << >>, batch_stats |-> 0,
   marshalled |-> 0, invoked |-> 0, read_runs |-> 0, failures |-> {}]

\* two instances of two models: the first declares two inputs and batches,
\* the second declares one input and does not batch
TwoConfigs ==
  <<[input |-> CycleInputs,
     output |-> <<[name |-> IoName(1, 0), data_type |-> "TYPE_FP32"]>>],
    [input |-> <<[name |-> IoName(1, 0), data_type |-> "TYPE_FP32"]>>,
     output |-> <<[name |-> IoName(1, 0), data_type |-> "TYPE_INT32"]>>]>>
TwoMaxBatchSizes == <<3, 0>>

\* the request arrays the two instances are called with: one request
TwoRequestLists == {<<[null |-> FALSE, dim |-> 1, lookup |-> TRUE]>>}

InitTwo ==
  /\ self = 1
  /\ other = Constructed(TwoConfigs[2], TwoMaxBatchSizes[2])
  /\ model_config = Constructed(TwoConfigs[1], TwoMaxBatchSizes[1]).model_config
  /\ device_ = Constructed(TwoConfigs[1], TwoMaxBatchSizes[1]).device_
  /\ instance_state = Constructed(TwoConfigs[1], TwoMaxBatchSizes[1]).instance_state
  /\ init_result = Constructed(TwoConfigs[1], TwoMaxBatchSizes[1]).init_result
  /\ max_batch_size = Constructed(TwoConfigs[1], TwoMaxBatchSizes[1]).max_batch_size
  /\ output_names = Constructed(TwoConfigs[1], TwoMaxBatchSizes[1]).output_names
  /\ input_index_map_ = Constructed(TwoConfigs[1], TwoMaxBatchSizes[1]).input_index_map_
  /\ output_index_map_ = Constructed(TwoConfigs[1], TwoMaxBatchSizes[1]).output_index_map_
  /\ output_dtype_map_ = Constructed(TwoConfigs[1], TwoMaxBatchSizes[1]).output_dtype_map_
  /\ pc = Constructed(TwoConfigs[1], TwoMaxBatchSizes[1]).pc
  /\ requests = Constructed(TwoConfigs[1], TwoMaxBatchSizes[1]).requests
  /\ total_batch_size = Constructed(TwoConfigs[1], TwoMaxBatchSizes[1]).total_batch_size
  /\ responses = Constructed(TwoConfigs[1], TwoMaxBatchSizes[1]).responses
  /\ input_memories = Constructed(TwoConfigs[1], TwoMaxBatchSizes[1]).input_memories
  /\ input_buffers = Constructed(TwoConfigs[1], TwoMaxBatchSizes[1]).input_buffers
  /\ output_tensors = Constructed(TwoConfigs[1], TwoMaxBatchSizes[1]).output_tensors
  /\ invalid_index = Constructed(TwoConfigs[1], TwoMaxBatchSizes[1]).invalid_index
  /\ execute_result = Constructed(TwoConfigs[1], TwoMaxBatchSizes[1]).execute_result
  /\ cuda_copy = Constructed(TwoConfigs[1], TwoMaxBatchSizes[1]).cuda_copy
  /\ gather_pending = Constructed(TwoConfigs[1], TwoMaxBatchSizes[1]).gather_pending
  /\ scatter_pending = Constructed(TwoConfigs[1], TwoMaxBatchSizes[1]).scatter_pending
  /\ responder_finalized = Constructed(TwoConfigs[1], TwoMaxBatchSizes[1]).responder_finalized
  /\ out_of_range = Constructed(TwoConfigs[1], TwoMaxBatchSizes[1]).out_of_range
  /\ report_order = Constructed(TwoConfigs[1], TwoMaxBatchSizes[1]).report_order
  /\ attempted = Constructed(TwoConfigs[1], TwoMaxBatchSizes[1]).attempted
  /\ created = Constructed(TwoConfigs[1], TwoMaxBatchSizes[1]).created
  /\ sent = Constructed(TwoConfigs[1], TwoMaxBatchSizes[1]).sent
  /\ delivered = Constructed(TwoConfigs[1], TwoMaxBatchSizes[1]).delivered
  /\ slices = Constructed(TwoConfigs[1], TwoMaxBatchSizes[1]).slices
  /\ processed = Constructed(TwoConfigs[1], TwoMaxBatchSizes[1]).processed
  /\ stats = Constructed(TwoConfigs[1], TwoMaxBatchSizes[1]).stats
  /\ released = Constructed(TwoConfigs[1], TwoMaxBatchSizes[1]).released
  /\ batch_stats = Constructed(TwoConfigs[1], TwoMaxBatchSizes[1]).batch_stats
  /\ marshalled = Constructed(TwoConfigs[1], TwoMaxBatchSizes[1]).marshalled
  /\ invoked = Constructed(TwoConfigs[1], TwoMaxBatchSizes[1]).invoked
  /\ read_runs = Constructed(TwoConfigs[1], TwoMaxBatchSizes[1]).read_runs
  /\ failures = Constructed(TwoConfigs[1], TwoMaxBatchSizes[1]).failures

CallOne == CallWith(TwoRequestLists)

NextTwo ==
  \/ Switch
  \/ CallOne
  \/ Accumulate
  \/ CheckBatchSize
  \/ CreateResponses
  \/ SetInputTensors
  \/ Execute
  \/ FreeInputMemories
  \/ VerifyOutputIndices
  \/ ReadOutputTensors
  \/ SendResponses
  \/ ReportAndRelease
  \/ ReportBatchStatistics

\* the cycles of two instances, their steps interleaved in any order
SpecTwo == InitTwo /\ [][NextTwo]_vars

\* ------------------------------------------------------------- properties

\* the sends made for request i
Sends(i) == {sent[i][k] : k \in DOMAIN sent[i]}
SentSuccess(i) == FinalSuccess \in Sends(i)
HasNull == \E i \in ReqIdx : requests[i].null
\* every declared output refers to a tensor Execute collected
AllIndicesValid ==
  \A k \in DOMAIN output_names :
    /\ output_index_map_[output_names[k]] >= 0
    /\ output_index_map_[output_names[k]] < Len(output_tensors)
PastCheck == pc \notin {"initialize", "idle", "ret_state", "accumulate", "check"}
PastVerify == pc \in {"read_outputs", "send", "report", "report_batch", "done"}
PastRead == pc \in {"send", "report", "report_batch", "done"}

\* C1: when ProcessRequests has returned, exactly one terminal response (an
\* error or the final successful one) has been sent for every request of the
\* call.  A request for which the front-end refused to create a response
\* (ResponseNew was called and failed) is set aside: nothing can be sent for it.
C1_ExactlyOneTerminal ==
  Returned =>
    \A i \in ReqIdx : (attempted[i] = 0 \/ created[i] >= 1) => Len(sent[i]) = 1

\* C2: a response is sent as successful only if forward was called and did
\* not throw, the output index check passed, ReadOutputTensors ran, and every
\* declared output has the declared data type and was handed to that response;
\* the successful send is then the only send of the response.
C2_SuccessOnlyIfComplete ==
  \A i \in ReqIdx :
    SentSuccess(i) =>
      /\ sent[i] = <<FinalSuccess>>
      /\ invoked = 1
      /\ "execute" \notin failures
      /\ ~invalid_index
      /\ AllIndicesValid
      /\ read_runs = 1
      /\ \A k \in DOMAIN output_names :
           /\ output_dtype_map_[output_names[k]]
                = output_tensors[output_index_map_[output_names[k]] + 1]
           /\ output_names[k] \in delivered[i]

\* C2 witness: a cycle with two declared outputs ends with a successful response
C2_Witness ==
  /\ pc = "done"
  /\ Len(output_names) = 2
  /\ \E i \in ReqIdx : SentSuccess(i)

\* the overflow condition on the summed batch size
Overflowed ==
  PastCheck /\ total_batch_size # 1 /\ total_batch_size > max_batch_size

NullReached ==
  \E k \in ReqIdx :
    /\ requests[k].null
    /\ \A j \in 1 .. (k - 1) : max_batch_size > 0 => requests[j].lookup

C5_NullNoResponse ==
  HasNull =>
    /\ marshalled = 0
    /\ \A i \in ReqIdx : attempted[i] = 0 /\ created[i] = 0 /\ sent[i] = << >>

\* C5 amended: in a cycle whose request list contains a nullptr request,
\* marshalling never starts and the response vector is never filled; when the
\* cycle has returned, the creation of a response was attempted exactly once for
\* every request and one error was sent on every response created.
C5_NullErrorAttempted ==
  HasNull =>
    /\ marshalled = 0
    /\ responses = << >>
    /\ pc \in {"accumulate", "ret_null", "ret_lookup"}
    /\ Returned =>
         \A i \in ReqIdx :
           /\ attempted[i] = 1
           /\ Len(sent[i]) = created[i]
           /\ \A e \in Sends(i) : e # FinalSuccess

\* C5 witness: a single nullptr request, for which an error response was sent
C5_Witness ==
  /\ Returned
  /\ Len(requests) = 1
  /\ requests[1].null
  /\ attempted[1] = 1
  /\ Len(sent[1]) = 1

\* C6: on every path through ProcessRequests every request is released, one
\* statistics record is reported per request and one for the cycle.
C6_BookkeepingAlways ==
  Returned =>
    /\ batch_stats = 1
    /\ \A i \in ReqIdx : released[i] = 1 /\ Len(stats[i]) = 1

\* the declared output names
DeclaredNames == {output_names[k] : k \in DOMAIN output_names}
\* no stage of the cycle failed and the output indices are valid
NoFailure == failures = {} /\ ~invalid_index

\* C7: a request whose response could not be created does not abort the cycle:
\* marshalling and the model invocation run once, disaggregation runs unless the
\* output index check fails, nothing is written or sent for that request, and
\* when no stage fails every other request gets every declared output and one
\* successful final send.
C7_CreationFailureIsolated ==
  (pc = "done" /\ \E i \in ReqIdx : created[i] = 0) =>
    /\ marshalled = 1
    /\ invoked = 1
    /\ read_runs = (IF invalid_index THEN 0 ELSE 1)
    /\ \A i \in ReqIdx :
         created[i] = 0 => (sent[i] = << >> /\ delivered[i] = {})
    /\ NoFailure =>
         \A j \in ReqIdx :
           created[j] = 1 =>
             (sent[j] = <<FinalSuccess>> /\ delivered[j] = DeclaredNames)

\* C7 witness: of two requests one has no response, the other gets the outputs
C7_Witness ==
  /\ pc = "done"
  /\ NoFailure
  /\ Len(requests) = 2
  /\ created = <<0, 1>>
  /\ DeclaredNames # {}
  /\ delivered[2] = DeclaredNames
  /\ sent = << << >>, <<FinalSuccess>> >>

\* the response of request i was open when Execute was called
OpenAtExecute(i) == created[i] = 1 /\ "marshal" \notin failures

\* C8: when the model invocation throws, every response open at that moment
\* gets the same internal error as its only send, no output is handed to any
\* response, no response is sent as successful, and forward is called once.
C8_ExecuteFailure ==
  "execute" \in failures =>
    /\ invoked = 1
    /\ ExecuteError.code = "INTERNAL"
    /\ \A i \in ReqIdx :
         /\ delivered[i] = {}
         /\ ~SentSuccess(i)
         /\ IF OpenAtExecute(i)
            THEN sent[i] = <<ExecuteError>>
            ELSE ExecuteError \notin Sends(i)

\* C8 witness: the collection of the results threw after some tensors were
\* collected, ReadOutputTensors ran, and both requests hold only the error
C8_Witness ==
  /\ pc = "done"
  /\ "execute" \in failures
  /\ read_runs = 1
  /\ DeclaredNames # {}
  /\ Len(requests) = 2
  /\ \A i \in ReqIdx : sent[i] = <<ExecuteError>>

\* the response of request i was open when the output indices were verified
OpenAtVerify(i) == created[i] = 1 /\ failures \cap {"marshal", "execute"} = {}

\* C9 as stated: ReadOutputTensors runs exactly when the number of results is
\* greater than or equal to every positional index the declared outputs refer
\* to (stated for the configurations that declare no negative index).
C9_ReadIffCountAtLeastMaxIndex ==
  (PastRead /\ \A k \in DOMAIN output_names :
                output_index_map_[output_names[k]] >= 0) =>
    (read_runs = 1 <=>
       \A k \in DOMAIN output_names :
         Len(output_tensors) >= output_index_map_[output_names[k]])

\* C9 amended: ReadOutputTensors runs exactly when every declared output's
\* positional index is at least 0 and strictly less than the number of results;
\* otherwise every response open at the check gets an invalid-argument error as
\* its only send and ReadOutputTensors is not run in the cycle.
C9_ReadIffIndicesInRange ==
  PastVerify =>
    /\ invalid_index <=> ~AllIndicesValid
    /\ pc = "read_outputs" => (~invalid_index /\ read_runs = 0)
    /\ PastRead => read_runs = (IF AllIndicesValid THEN 1 ELSE 0)
    /\ ~AllIndicesValid =>
         /\ OutputIndexError.code = "INVALID_ARG"
         /\ \A i \in ReqIdx :
              IF OpenAtVerify(i)
              THEN sent[i] = <<OutputIndexError>>
              ELSE OutputIndexError \notin Sends(i)

\* C9 witness: a declared index equal to the number of results fails the check
C9_Witness ==
  /\ pc = "done"
  /\ read_runs = 0
  /\ \E k \in DOMAIN output_names :
       output_index_map_[output_names[k]] = Len(output_tensors)
  /\ \A k \in DOMAIN output_names : output_index_map_[output_names[k]] >= 0
  /\ \E i \in ReqIdx : sent[i] = <<OutputIndexError>>

\* some declared output's data type differs from that of its positional result
ExistsMismatch ==
  \E k \in DOMAIN output_names :
    /\ output_index_map_[output_names[k]] >= 0
    /\ output_index_map_[output_names[k]] < Len(output_tensors)
    /\ output_dtype_map_[output_names[k]]
         # output_tensors[output_index_map_[output_names[k]] + 1]

\* the response of request i was open when ReadOutputTensors met the mismatch
OpenAtMismatch(i) == created[i] = 1 /\ failures = {"dtype"}

\* C10: when a declared output's data type differs from the data type of its
\* positional result, no response of the cycle is sent as successful; the
\* mismatch is reported unless the cycle failed elsewhere (index check, flatten),
\* and then every response open at that moment gets an invalid-argument error
\* as its only send.
C10_DtypeMismatch ==
  (PastRead /\ ExistsMismatch) =>
    /\ \A i \in ReqIdx : ~SentSuccess(i)
    /\ (~invalid_index /\ "flatten" \notin failures) => "dtype" \in failures
    /\ DtypeError.code = "INVALID_ARG"
    /\ "dtype" \in failures =>
         \A i \in ReqIdx :
           IF OpenAtMismatch(i)
           THEN sent[i] = <<DtypeError>>
           ELSE DtypeError \notin Sends(i)

\* C10 witness: the second declared output mismatches after the first was
\* handed to both responses of a two-request batch; both carry the error
C10_Witness ==
  /\ pc = "done"
  /\ "dtype" \in failures
  /\ Len(requests) = 2
  /\ \A i \in ReqIdx : sent[i] = <<DtypeError>> /\ delivered[i] # {}

\* the sum of the leading dimensions of the first n requests
RECURSIVE SumDims(_)
SumDims(n) == IF n = 0 THEN 0 ELSE SumDims(n - 1) + requests[n].dim

\* C11: whenever forward has been called, total_batch_size is 1 or at most
\* max_batch_size; when max_batch_size is 0 forward is called only in a cycle
\* of exactly one request, and a cycle of any other request count returns
\* before marshalling with RequestsRespondWithError applied to all its requests:
\* a response is attempted for each, every response created carries one error
\* and none is successful.
C11_InvokedWithinLimit ==
  /\ invoked >= 1 =>
       (total_batch_size = 1 \/ total_batch_size <= max_batch_size)
  /\ (invoked >= 1 /\ max_batch_size = 0) => Len(requests) = 1
  /\ (PastCheck /\ max_batch_size = 0 /\ Len(requests) # 1) =>
       /\ pc \in {"ret_null", "ret_overflow"}
       /\ marshalled = 0
       /\ invoked = 0
       /\ \A i \in ReqIdx :
            /\ attempted[i] = 1
            /\ Len(sent[i]) = created[i]
            /\ ~SentSuccess(i)

\* C11 witness: a model that does not batch is invoked for a single request
C11_Witness ==
  /\ pc = "done"
  /\ max_batch_size = 0
  /\ Len(requests) = 1
  /\ total_batch_size = 1
  /\ invoked = 1

\* C12: in a cycle without a nullptr request whose accumulation loop ran to
\* its end (every first input was found), total_batch_size is the sum of the
\* requests' leading dimensions when max_batch_size > 0 and the number of
\* requests otherwise; a cycle that runs to the end calls forward once and
\* makes one send on every response created.
C12_TotalIsSum ==
  (~HasNull /\ pc \notin {"idle", "accumulate", "ret_lookup"}) =>
    /\ total_batch_size = (IF max_batch_size > 0 THEN SumDims(Len(requests))
                                                 ELSE Len(requests))
    /\ pc = "done" =>
         /\ invoked = 1
         /\ \A i \in ReqIdx : Len(sent[i]) = created[i]

\* C12 witness: requests of leading dimensions 1 and 2 give a total of 3, one
\* model invocation and two successful responses
C12_Witness ==
  /\ pc = "done"
  /\ max_batch_size = 3
  /\ Len(requests) = 2
  /\ requests[1].dim = 1
  /\ requests[2].dim = 2
  /\ total_batch_size = 3
  /\ invoked = 1
  /\ \A i \in ReqIdx : sent[i] = <<FinalSuccess>>

\* the leading-axis offset of request i: the sum of the leading dimensions of
\* the requests before it
InputOffset(i) == SumDims(i - 1)

\* C13: every input buffer held for the model call has exactly the rows of
\* all requests' slices (its leading dimension is total_batch_size when
\* batching is enabled), and the rows of request i start at the offset that is
\* the sum of the leading dimensions of the requests before i, in their order;
\* when marshalling did not fail there is one such buffer per input.
C13_InputSlicesAtOffsets ==
  /\ \A k \in DOMAIN input_buffers :
       /\ input_buffers[k].rows = Len(input_buffers[k].data)
       /\ max_batch_size > 0 => input_buffers[k].rows = total_batch_size
       /\ \A i \in ReqIdx : \A r \in 1 .. requests[i].dim :
            input_buffers[k].data[InputOffset(i) + r] = <<i, r>>
  /\ (pc = "execute" /\ "marshal" \notin failures) =>
       (Len(input_buffers) = input_memories /\ input_memories >= 1)

\* C13 witness: two inputs, requests of leading dimensions 1 and 2: each buffer
\* holds request 1's row, then request 2's two rows
C13_Witness ==
  /\ pc = "execute"
  /\ "marshal" \notin failures
  /\ Len(input_buffers) = 2
  /\ \A k \in DOMAIN input_buffers :
       input_buffers[k] = [rows |-> 3, data |-> << <<1, 1>>, <<2, 1>>, <<2, 2>> >>]

\* C14: every slice copied to request i's response starts at the offset
\* request i has in the input buffers (the sum of the leading dimensions of the
\* requests before it, whether or not their responses are open) and has the
\* request's own batch size; a response gets one slice of every output handed
\* to it; in a cycle of one request the slice starts at 0 and has the
\* total_batch_size rows of the result.
C14_OutputSlicesAtInputOffsets ==
  \A i \in ReqIdx :
    /\ {s.name : s \in slices[i]} = delivered[i]
    /\ Cardinality(slices[i]) = Cardinality(delivered[i])
    /\ \A s \in slices[i] :
         /\ s.offset = InputOffset(i)
         /\ max_batch_size > 0 => s.len = requests[i].dim
         /\ Len(requests) = 1 => (s.offset = 0 /\ s.len = total_batch_size)

\* C14 witness: the first request's response could not be created; the second
\* request's slices are still taken after the first request's row
C14_Witness ==
  /\ pc = "done"
  /\ Len(requests) = 2
  /\ requests[1].dim = 1
  /\ requests[2].dim = 2
  /\ created = <<0, 1>>
  /\ slices[1] = {}
  /\ slices[2] # {}
  /\ \A s \in slices[2] : s.offset = 1 /\ s.len = 2

\* the declared inputs and outputs of the configuration
DeclaredIos ==
  {model_config.input[k] : k \in DOMAIN model_config.input}
    \cup {model_config.output[k] : k \in DOMAIN model_config.output}
\* the name ends with the delimiter followed by an index: one or more digits
HasIndexSuffix(name) ==
  /\ Find(name) # -1
  /\ Substr(name, Find(name) + 2) # << >>
  /\ \A k \in DOMAIN Substr(name, Find(name) + 2) :
       Substr(name, Find(name) + 2)[k] \in Digits
\* no cycle was started on the instance
NeverCalled == pc \in {"initialize", "idle"} /\ NoCycle

\* C15: when a declared input or output name has no `__<index>` suffix, or a
\* declared data type has no torch type, TRITONBACKEND_ModelInstanceInitialize
\* returns an error, no instance state is registered and no cycle is ever
\* executed on the instance.
C15_SchemaErrorFailsConstruction ==
  (pc # "initialize"
     /\ \E io \in DeclaredIos :
          ~HasIndexSuffix(io.name) \/ ~HasTorchType(io.data_type)) =>
    /\ init_result # NoError
    /\ instance_state = "unset"
    /\ NeverCalled

\* what holds of the code: a name without the delimiter or a data type without
\* a torch type fails construction, a failed construction registers no
\* instance state, and no cycle is executed without an instance state
DelimiterOrTypeErrorFailsConstruction ==
  /\ (pc # "initialize"
        /\ \E io \in DeclaredIos :
             Find(io.name) = -1 \/ ~HasTorchType(io.data_type)) =>
       init_result # NoError
  /\ (pc # "initialize" /\ init_result # NoError) =>
       (instance_state = "unset" /\ NeverCalled)
  /\ ~NeverCalled => (init_result = NoError /\ instance_state = "set")

\* the cycle is committed to running inference: past the checks of lines 574-595
PassedAccumulation ==
  pc \in {"respond_new", "set_inputs", "execute", "free_inputs", "verify_outputs",
          "read_outputs", "send", "report", "report_batch", "done"}
\* the final bookkeeping of lines 734-770 has been made
BookkeepingDone ==
  /\ pc = "done"
  /\ batch_stats = 1
  /\ \A i \in ReqIdx :
       /\ released[i] = 1
       /\ Len(stats[i]) = 1
       /\ created[i] = 1 => Len(sent[i]) = 1
       /\ created[i] = 0 => sent[i] = << >>

\* C16: a cycle that has passed accumulation (total_batch_size at least 1 and
\* within the limit) eventually returns from ProcessRequests with the final
\* bookkeeping made, whatever failed on the way: every response created has been
\* sent once, every request released once, and the statistics of every request
\* and of the batch reported once.
C16_ReachesBookkeeping == PassedAccumulation ~> BookkeepingDone

\* C16, the states on the way: a committed cycle has a total of at least 1
\* within the limit, it returns only at the end of ProcessRequests, and there
\* the bookkeeping is complete although stages failed.
C16_BookkeepingAtReturn ==
  PassedAccumulation =>
    /\ total_batch_size >= 1
    /\ (total_batch_size = 1 \/ total_batch_size <= max_batch_size)
    /\ Returned => BookkeepingDone

\* C16 witness: marshalling and the model invocation both failed, one response
\* could not be created, and the cycle still ends with the bookkeeping made
C16_Witness ==
  /\ BookkeepingDone
  /\ Len(requests) = 2
  /\ created = <<1, 0>>
  /\ {"marshal", "execute"} \subseteq failures
  /\ stats = << <<FALSE>>, <<FALSE>> >>

\* C17: TRITONBACKEND_ModelInstanceExecute returns an error only when it could
\* not obtain the instance state, before it touched the requests; once
\* ProcessRequests was called it returns success on every path, also when
\* requests failed, and the failures are in the responses only.
C17_ExecuteReturnsSuccess ==
  /\ Returned => execute_result = NoError
  /\ execute_result \notin {NoError, Pending} => (pc = "ret_state" /\ NoCycle)
  /\ execute_result = Pending => ~Returned /\ pc # "ret_state"

\* C17 witness: the model invocation failed, the requests got the error in
\* their responses and the call returned success
C17_Witness ==
  /\ pc = "done"
  /\ "execute" \in failures
  /\ \E i \in ReqIdx : sent[i] = <<ExecuteError>>
  /\ execute_result = NoError

\* C18: in every step of a cycle, a slot of the response vector that is
\* nullptr stays nullptr and nothing is sent or written for its request; at
\* every moment at most one send has been made for a request, and none without
\* a response created for it.
C18_EmptySlotUntouched ==
  [][/\ \A i \in DOMAIN responses :
          responses[i] = "null" =>
            /\ responses'[i] = "null"
            /\ sent'[i] = sent[i]
            /\ delivered'[i] = delivered[i]
            /\ slices'[i] = slices[i]
     /\ \A i \in DOMAIN sent' :
          Len(sent'[i]) <= 1 /\ Len(sent'[i]) <= created'[i]]_vars

\* C18 witness: the first response could not be created and the second was
\* emptied by a marshalling error; the model invocation failed afterwards, and
\* the cycle ends with that one error on the second response and nothing on
\* the first
C18_Witness ==
  /\ pc = "done"
  /\ {"marshal", "execute"} \subseteq failures
  /\ created = <<0, 1>>
  /\ sent[1] = << >>
  /\ Len(sent[2]) = 1
  /\ sent[2][1].msg = "input"
  /\ delivered = <<{}, {}>>

\* C19: when SetInputTensors failed, every response that was open got an error
\* as its only send, forward is never called and ReadOutputTensors never run
\* in the cycle, and when ProcessRequests has returned every request is
\* released and the statistics are reported.
C19_MarshalFailureAborts ==
  "marshal" \in failures =>
    /\ \A i \in ReqIdx :
         /\ Len(sent[i]) = created[i]
         /\ ~SentSuccess(i)
    /\ invoked = 0
    /\ read_runs = 0
    /\ Returned =>
         /\ batch_stats = 1
         /\ \A i \in ReqIdx : released[i] = 1 /\ Len(stats[i]) = 1

\* the first declared output whose data type differs from its result's
FirstMismatch ==
  CHOOSE m \in DOMAIN output_names :
    /\ output_dtype_map_[output_names[m]]
         # output_tensors[output_index_map_[output_names[m]] + 1]
    /\ \A k \in 1 .. (m - 1) :
         output_dtype_map_[output_names[k]]
           = output_tensors[output_index_map_[output_names[k]] + 1]

\* C20 as stated: when a data-type check failed in ReadOutputTensors, the
\* error was sent to every open response and every declared output, those
\* after the mismatching one included, was processed by the loop.
C20_MismatchContinues ==
  (PastRead /\ "dtype" \in failures) =>
    /\ \A i \in ReqIdx :
         IF OpenAtMismatch(i) THEN sent[i] = <<DtypeError>>
                              ELSE DtypeError \notin Sends(i)
    /\ processed = DeclaredNames

\* C20 amended: when a data-type check failed in ReadOutputTensors, the error
\* was sent to every open response and ReadOutputTensors returned at once:
\* the loop got to the outputs up to the mismatching one and to none declared
\* after it, and nothing was written for the mismatching output or a later one.
C20_MismatchReturns ==
  (PastRead /\ "dtype" \in failures) =>
    /\ \A i \in ReqIdx :
         IF OpenAtMismatch(i) THEN sent[i] = <<DtypeError>>
                              ELSE DtypeError \notin Sends(i)
    /\ processed = {output_names[k] : k \in 1 .. FirstMismatch}
    /\ \A i \in ReqIdx :
         delivered[i] \subseteq {output_names[k] : k \in 1 .. (FirstMismatch - 1)}

\* C20 witness: the first of two declared outputs mismatches; the error is
\* sent and the second output is never processed
C20_Witness ==
  /\ pc = "done"
  /\ "dtype" \in failures
  /\ Len(output_names) = 2
  /\ processed = {output_names[1]}
  /\ \E i \in ReqIdx : sent[i] = <<DtypeError>>

\* the accumulation loop ran to its end and summed a batch size of 0
SummedZero ==
  /\ total_batch_size = 0
  /\ pc \notin {"initialize", "idle", "ret_state", "accumulate", "ret_null",
               "ret_lookup"}

\* C21: when the summed batch size of a cycle is 0, ProcessRequests returns
\* without doing anything: no response is created or sent for any request, no
\* buffer is allocated, SetInputTensors is not run and forward is not called.
C21_ZeroBatchSilent ==
  SummedZero =>
    /\ pc \in {"check", "ret_zero"}
    /\ responses = << >>
    /\ input_memories = 0
    /\ input_buffers = << >>
    /\ marshalled = 0
    /\ invoked = 0
    /\ read_runs = 0
    /\ \A i \in ReqIdx : attempted[i] = 0 /\ created[i] = 0 /\ sent[i] = << >>

\* C21 witness: two requests whose first inputs have a leading dimension of 0;
\* the cycle has returned and nothing was created for them
C21_Witness ==
  /\ pc = "ret_zero"
  /\ max_batch_size > 0
  /\ Len(requests) = 2
  /\ \A i \in ReqIdx : requests[i].dim = 0 /\ attempted[i] = 0 /\ sent[i] = << >>
  /\ execute_result = NoError

\* C22: whenever forward has been called, no gather copy issued into an input
\* buffer during marshalling is still in flight: the stream was synchronized
\* before the call, also when SetInputTensors returned early after copies had
\* been issued.
C22_InputCopiesCompleteAtInvoke ==
  invoked >= 1 => gather_pending = 0

\* what holds of the code: the stream is synchronized before forward when
\* SetInputTensors ran to its end; after an early return the copies issued
\* for the buffers allocated so far are in flight when forward is called
InputBarrierWhenMarshalled ==
  invoked >= 1 =>
    IF "marshal" \in failures
    THEN ~cuda_copy
    ELSE cuda_copy = AsyncCopies(device_) /\ gather_pending = 0

\* some slice that is not empty was copied to a response
ScatterIssued == \E i \in ReqIdx : \E s \in slices[i] : s.len > 0

\* C23: when ReadOutputTensors has returned after responder.ProcessTensor
\* copied at least one output to a response, the responder was finalized and
\* no scatter copy is in flight, also when a later output failed its data-type
\* check.
C23_ScatterSynchronizedAtReturn ==
  (PastRead /\ read_runs = 1 /\ ScatterIssued) =>
    /\ responder_finalized = 1
    /\ scatter_pending = 0

\* what holds of the code: the responder is finalized and the stream
\* synchronized exactly when no output failed in the loop
FinalizedUnlessOutputFailed ==
  (PastRead /\ read_runs = 1) =>
    IF failures \cap {"flatten", "dtype"} = {}
    THEN responder_finalized = 1 /\ scatter_pending = 0
    ELSE responder_finalized = 0
           /\ scatter_pending = ScatterPending(device_, slices)

\* the largest number of inputs a representative request has
MaxInputCount == CHOOSE n \in InputCounts : \A k \in InputCounts : k <= n

\* C24: in a cycle that reaches marshalling, SetInputTensors allocates the
\* input buffers once, at most one per input of the representative request
\* (one per input when it did not fail, fewer when it failed); the buffers are
\* held only until the model call has returned, they are all freed in one step
\* after that call (whether or not it threw) and before the output indices are
\* verified and ReadOutputTensors runs, and no buffer is held when
\* ProcessRequests has returned.
C24_InputBuffersFreedOnce ==
  /\ [](/\ input_memories > 0 => pc \in {"execute", "free_inputs"}
        /\ Len(input_buffers) = input_memories
        /\ pc \in {"execute", "free_inputs"} =>
             IF "marshal" \in failures
             THEN input_memories < MaxInputCount
             ELSE input_memories \in InputCounts
        /\ Returned => input_memories = 0)
  /\ [][input_memories' # input_memories =>
          \/ /\ pc = "set_inputs"
             /\ input_memories = 0
             /\ invoked = 0
          \/ /\ pc = "free_inputs"
             /\ input_memories' = 0
             /\ invoked = 1
             /\ read_runs = 0
             /\ pc' = "verify_outputs"]_vars

\* C24 witness: two buffers were allocated, forward threw, and the buffers
\* are freed before the output indices are verified
C24_Witness ==
  /\ pc = "verify_outputs"
  /\ marshalled = 1
  /\ "marshal" \notin failures
  /\ "execute" \in failures
  /\ input_memories = 0
  /\ input_buffers = << >>
  /\ read_runs = 0

\* C25: on an instance that was constructed, every slot at which
\* SetInputTensors stores an input tensor is at least 0 and less than the size
\* of input_tensors (the input count of the representative request): no store
\* falls outside the positional argument list.
C25_SlotWithinArity ==
  instance_state = "set" =>
    /\ out_of_range = {}
    /\ pc # "crashed"

\* C26: after construction the input index map, the output index map and the
\* output data-type map are what the constructor built: no cycle adds, removes
\* or alters an entry, whatever input names the requests carry.
C26_SchemaIndexReadOnly ==
  instance_state = "set" =>
    /\ input_index_map_ = Construct(model_config).input_index_map
    /\ output_index_map_ = Construct(model_config).output_index_map
    /\ output_dtype_map_ = Construct(model_config).output_dtype_map

\* what holds of the code: the output maps are never changed, and the input
\* index map only grows, by the names of request inputs it did not hold, which
\* are entered at position 0
SchemaIndexOnlyGrows ==
  instance_state = "set" =>
    /\ output_index_map_ = Construct(model_config).output_index_map
    /\ output_dtype_map_ = Construct(model_config).output_dtype_map
    /\ \A name \in DOMAIN Construct(model_config).input_index_map :
         /\ name \in DOMAIN input_index_map_
         /\ input_index_map_[name] = Construct(model_config).input_index_map[name]
    /\ \A name \in DOMAIN input_index_map_ :
         name \notin DOMAIN Construct(model_config).input_index_map =>
           (name = UndeclaredName /\ input_index_map_[name] = 0)

\* the controls the configuration has, and those whose name has no delimiter
PresentControls ==
  {i \in 1 .. Len(Controls) : model_config.sequence_batching[Controls[i]] # << >>}
ControlName(i) == model_config.sequence_batching[Controls[i]]
BadControls ==
  {i \in PresentControls :
     \A p \in 1 .. (Len(ControlName(i)) - 1) :
       ~(ControlName(i)[p] = "_" /\ ControlName(i)[p + 1] = "_")}

\* C27: each of the four sequence controls is optional by itself.  When the
\* model could be loaded, construction fails exactly when some control the
\* configuration has is named without `__`; otherwise the input index map
\* holds the declared inputs and, for each control the configuration has, its
\* tensor name with the index that follows `__`, an absent control adds no
\* entry, and the expected input count is the number of declared inputs plus
\* one for each control present.
C27_SequenceControlsOptional ==
  (pc # "initialize" /\ init_result # LoadError) =>
    IF BadControls # {}
    THEN /\ init_result = NamingError
         /\ instance_state = "unset"
         /\ input_index_map_ = << >>
    ELSE /\ init_result = NoError
         /\ instance_state = "set"
         /\ DOMAIN input_index_map_ =
              {model_config.input[k].name : k \in DOMAIN model_config.input}
                \cup {ControlName(i) : i \in PresentControls}
         /\ \A i \in PresentControls :
              input_index_map_[ControlName(i)]
                = DigitValue(ControlName(i)[Len(ControlName(i))])
         /\ Construct(model_config).expected_input_cnt
              = Len(model_config.input) + Cardinality(PresentControls)

\* C27 witness: the configuration has the start and the correlation-id
\* control and neither of the other two; the instance is constructed with the
\* two names in its input index map
C27_Witness ==
  /\ pc = "idle"
  /\ instance_state = "set"
  /\ PresentControls = {1, 4}
  /\ ControlName(1) = <<"s", "_", "_", "1">>
  /\ ControlName(4) = <<"c", "_", "_", "2">>
  /\ input_index_map_[ControlName(1)] = 1
  /\ input_index_map_[ControlName(4)] = 2
  /\ Cardinality(DOMAIN input_index_map_) = 3

\* C28: in a cycle that has passed accumulation, a request is released only
\* after forward was called, ReadOutputTensors ran (unless the output index
\* check failed) and every response still open was sent as final; the
\* statistics of a request are reported before that request is released; and
\* the statistics of the batch are reported only after every request was
\* released.
C28_ReleaseAfterSends ==
  PassedAccumulation =>
    /\ \A i \in ReqIdx :
         released[i] >= 1 =>
           /\ pc \in {"report_batch", "done"}
           /\ invoked = 1
           /\ read_runs = (IF invalid_index THEN 0 ELSE 1)
           /\ \A j \in ReqIdx :
                /\ responses[j] = "open" => sent[j] = <<FinalSuccess>>
                /\ Len(sent[j]) = created[j]
           /\ Len(stats[i]) = 1
           /\ report_order[i] = <<"statistics", "release">>
    /\ \A i \in ReqIdx :
         released[i] = 0 => (stats[i] = << >> /\ report_order[i] = << >>)
    /\ batch_stats >= 1 =>
         /\ pc = "done"
         /\ \A i \in ReqIdx : released[i] = 1

\* C28 witness: of two requests one got a successful response and the other
\* had no response; both were released after their statistics were reported,
\* then the batch statistics were reported
C28_Witness ==
  /\ pc = "done"
  /\ Len(requests) = 2
  /\ created = <<1, 0>>
  /\ sent[1] = <<FinalSuccess>>
  /\ \A i \in ReqIdx : report_order[i] = <<"statistics", "release">>
  /\ stats = << <<TRUE>>, <<FALSE>> >>
  /\ batch_stats = 1

\* C30: in a cycle that has made the final bookkeeping, the statistics of a
\* request were reported once, as successful exactly when its slot of the
\* response vector was still open at the final sends: its response was created
\* and its only send is the final successful one, no error having been sent
\* for it; a request whose response could not be created is reported as failed.
C30_SuccessIffSlotOpen ==
  pc \in {"report_batch", "done"} =>
    \A i \in ReqIdx :
      /\ Len(stats[i]) = 1
      /\ stats[i][1] <=> responses[i] = "open"
      /\ stats[i][1] <=> (created[i] = 1 /\ \A e \in Sends(i) : e = FinalSuccess)
      /\ stats[i][1] => sent[i] = <<FinalSuccess>>
      /\ created[i] = 0 => ~stats[i][1]

\* C30 witness: of two requests one has no response and is reported as failed,
\* the other got its response and is reported as successful
C30_Witness ==
  /\ pc = "done"
  /\ Len(requests) = 2
  /\ created = <<0, 1>>
  /\ responses = <<"null", "open">>
  /\ sent = << << >>, <<FinalSuccess>> >>
  /\ stats = << <<FALSE>>, <<TRUE>> >>

\* C30 second case: a response was created and an error was sent for it; its
\* request is reported as failed
C30_ErrorReportedFailed ==
  /\ pc = "done"
  /\ \E i \in ReqIdx :
       /\ created[i] = 1
       /\ Len(sent[i]) = 1
       /\ sent[i][1] # FinalSuccess
       /\ stats[i] = <<FALSE>>

\* ------------------------------------------------------------------ C29
\* the state of instance k: the running one's is in the variables, the
\* other one's is kept aside
InstanceState(k) == IF self = k THEN Current ELSE other

\* the responses a finished cycle has sent for its requests, as the cycle of
\* an instance running alone sends them: one response for each request whose
\* response object was created, the error of the first stage of that cycle
\* that failed, the final successful response when none failed; everything
\* is read from the instance's own state
ResponsesAsAlone(inst) ==
  inst.pc = "done" =>
    \A i \in DOMAIN inst.sent :
      /\ Len(inst.sent[i]) = inst.created[i]
      /\ inst.created[i] = 1 =>
           IF "marshal" \in inst.failures
           THEN \E code \in ErrorCodes : inst.sent[i][1] = Error(code, "input")
           ELSE IF "execute" \in inst.failures
           THEN inst.sent[i][1] = ExecuteError
           ELSE IF inst.invalid_index
           THEN inst.sent[i][1] = OutputIndexError
           ELSE IF inst.failures # {}
           THEN inst.sent[i][1].code \in ErrorCodes
           ELSE inst.sent[i][1] = FinalSuccess

\* a cycle running alone sends its responses so
AloneResponses == ResponsesAsAlone(Current)

\* C29: when the cycles of two distinct instances run with their steps
\* interleaved in any order, a step changes the state of an instance (its
\* index maps, its buffers, its response slots and everything else it owns)
\* only when that instance is the one running, before and after the step; and
\* the responses each finished cycle has sent are those the cycle sends when
\* it runs alone.
C29_InstancesIsolated ==
  /\ [](\A k \in {1, 2} : other # << >> => ResponsesAsAlone(InstanceState(k)))
  /\ [][\A k \in {1, 2} :
          (other # << >> /\ InstanceState(k)' # InstanceState(k))
            => (self = k /\ self' = k)]_vars

\* C29 witness: the two cycles are in progress at once, each past its call of
\* the model and each holding its own input buffers: two for the instance
\* with two inputs, one for the other; the first one's model call threw and
\* the second one's did not
C29_Witness ==
  /\ other # << >>
  /\ self = 2
  /\ pc = "free_inputs"
  /\ input_memories = 1
  /\ failures = {}
  /\ other.pc = "free_inputs"
  /\ other.input_memories = 2
  /\ other.failures = {"execute"}
  /\ other.sent = << <<ExecuteError>> >>
  /\ sent = << << >> >>

\* C29 second case: both cycles have finished, one with the final successful
\* response and the other with an error
C29_BothDone ==
  /\ other # << >>
  /\ pc = "done"
  /\ other.pc = "done"
  /\ sent = << <<FinalSuccess>> >>
  /\ other.sent # << <<FinalSuccess>> >>

====
